---- MODULE Spec2Model ----
(***************************************************************************)
(* Two parts of the fargate CLI.                                           *)
(*                                                                         *)
(* The service-create command (cmd/service_create.go, kept as              *)
(* src/unnamed/part_000): the setters of ServiceCreateOperation, the       *)
(* order in which Run calls them, and createService call by call           *)
(* (specification Spec; SpecRepo runs its first step, repository           *)
(* acquisition, again and again against one registry).                     *)
(*                                                                         *)
(* The task inventory and lifecycle control of package ecs                 *)
(* (src/ecs/task.go), remote call by remote call, one command at a time    *)
(* against a cluster of a few tasks that others change between the calls:  *)
(* RunTask, the queries answered by listTasks, and ListTaskGroups          *)
(* (specification SpecTasks); RunTask, StopTasks and StopTask              *)
(* (specification SpecStops).                                              *)
(*                                                                         *)
(* Text that the program parses (port specifications, routing rules,       *)
(* started-by tags, task ARNs) is a sequence of one-character strings, so  *)
(* that splitting, upper-casing and pattern matching are computed as the   *)
(* code computes them.  Opaque identifiers (names, ARNs) are TLA+ strings  *)
(* or tuples.                                                              *)
(***************************************************************************)
EXTENDS Integers, Sequences, FiniteSets, TLC

VARIABLES
    pc,         \* position of the command: between handlers, or the next call of createService
    operation,  \* the ServiceCreateOperation
    flags,      \* the command-line flags the handlers have consumed so far
    calls,      \* every collaborator call issued so far, in order, with its outcome
    err,        \* what console.ErrorExit reported, if it was called
    local,      \* the local variables of createService
    repos,      \* the image repositories that exist in the registry
    created,    \* the remote resources created so far, in creation order
    fleet,      \* the tasks of the cluster, as the platform holds them
    last        \* the running operation of the ecs package: its input, calls and outcome

\* the state of the service-create command, and the state of the task inventory
svcVars == <<pc, operation, flags, calls, err, local, repos, created>>
taskVars == <<fleet, last>>

vars == <<svcVars, taskVars>>

-----------------------------------------------------------------------------
(* Bounds of the model *)

\* longest list of --rule flags
MaxRules == 2

-----------------------------------------------------------------------------
(* Text *)

LowerCase == <<"a","b","c","d","e","f","g","h","i","j","k","l","m",
               "n","o","p","q","r","s","t","u","v","w","x","y","z">>
UpperCase == <<"A","B","C","D","E","F","G","H","I","J","K","L","M",
               "N","O","P","Q","R","S","T","U","V","W","X","Y","Z">>
Digits    == <<"0","1","2","3","4","5","6","7","8","9">>

ToUpperChar(c) ==
    IF \E i \in 1..Len(LowerCase) : LowerCase[i] = c
    THEN UpperCase[CHOOSE i \in 1..Len(LowerCase) : LowerCase[i] = c]
    ELSE c

\* strings.ToUpper
ToUpper(s) == [i \in 1..Len(s) |-> ToUpperChar(s[i])]

\* strings.Index: position of the first sep in s, 0 when there is none
Index(s, sep) ==
    IF \E i \in 1..Len(s) : s[i] = sep
    THEN CHOOSE i \in 1..Len(s) : s[i] = sep /\ \A j \in 1..(i-1) : s[j] # sep
    ELSE 0

\* strings.SplitN(s, sep, 2): at most two pieces, cut at the first sep
SplitN2(s, sep) ==
    IF Index(s, sep) = 0
    THEN <<s>>
    ELSE <<SubSeq(s, 1, Index(s, sep) - 1), SubSeq(s, Index(s, sep) + 1, Len(s))>>

\* case-insensitive prefix and suffix tests, as a (?i) pattern makes them
HasPrefixFold(s, p) == Len(s) >= Len(p) /\ ToUpper(SubSeq(s, 1, Len(p))) = ToUpper(p)
HasSuffixFold(s, p) ==
    Len(s) >= Len(p) /\ ToUpper(SubSeq(s, Len(s) - Len(p) + 1, Len(s))) = ToUpper(p)

DigitValue(c) == (CHOOSE i \in 1..Len(Digits) : Digits[i] = c) - 1

RECURSIVE ParseInt(_)
\* strconv.ParseInt(s, 10, 64) of a string of digits
ParseInt(s) ==
    IF Len(s) = 0 THEN 0
    ELSE 10 * ParseInt(SubSeq(s, 1, Len(s) - 1)) + DigitValue(s[Len(s)])

-----------------------------------------------------------------------------
(* Port specifications: SetPort *)

PortMin == 1
PortMax == 65535

\* the protocols the validProtocolsPattern admits (any letter case)
ValidProtocols == { <<"T","C","P">>, <<"H","T","T","P">>, <<"H","T","T","P","S">> }

validProtocols_MatchString(protocol) == ToUpper(protocol) \in ValidProtocols

\* inflatePort: "PROTOCOL:PORT" or "PORT"; the protocol upper-cased, TCP when omitted
inflatePort(src) ==
    IF Index(src, ":") > 0
    THEN [Protocol |-> ToUpper(SplitN2(src, ":")[1]), Port |-> ParseInt(SplitN2(src, ":")[2])]
    ELSE [Protocol |-> <<"T","C","P">>, Port |-> ParseInt(src)]

\* the zero value of Port
NoPort == [Protocol |-> <<>>, Port |-> 0]

\* mutant: the lower limit of the range is off by one
PortOutOfRange_ZeroAllowed(port) == port.Port < 0 \/ port.Port > PortMax

\* SetPort, the range test of the port number
PortOutOfRange(port) == port.Port < PortMin \/ port.Port > PortMax

\* SetPort, the messages collected for one port
SetPortMsgs(port) ==
    (IF ~validProtocols_MatchString(port.Protocol)
     THEN << [msg |-> "Invalid protocol", arg |-> port.Protocol] >> ELSE <<>>)
    \o
    (IF PortOutOfRange(port)
     THEN << [msg |-> "Invalid port", arg |-> port.Port] >> ELSE <<>>)

-----------------------------------------------------------------------------
(* Routing rules: SetRules *)

\* regexp "(?i)^host|path$": the alternation binds weaker than the anchors, so the
\* pattern is (^host) or (path$)
validRuleTypes_MatchString(s) ==
    HasPrefixFold(s, <<"h","o","s","t">>) \/ HasSuffixFold(s, <<"p","a","t","h">>)

\* SetRules, the messages one entry adds
RuleMsgs(inputRule) ==
    (IF Len(SplitN2(inputRule, "=")) # 2
     THEN << [msg |-> "rules must be in the form of type=value", arg |-> inputRule] >>
     ELSE <<>>)
    \o
    (IF ~validRuleTypes_MatchString(SplitN2(inputRule, "=")[1])
     THEN << [msg |-> "Invalid rule type", arg |-> SplitN2(inputRule, "=")[1]] >>
     ELSE <<>>)

\* SetRules reads splitInputRule[1] of every entry, with or without a message
\* collected for it: an entry without a separator has no such element
RulePanics(inputRule) == Len(SplitN2(inputRule, "=")) < 2

\* SetRules, the rule appended for one entry
RuleOf(inputRule) ==
    [Type  |-> ToUpper(SplitN2(inputRule, "=")[1]),
     Value |-> SplitN2(inputRule, "=")[2]]

RECURSIVE AllRuleMsgs(_)
AllRuleMsgs(inputRules) ==
    IF Len(inputRules) = 0 THEN <<>>
    ELSE RuleMsgs(Head(inputRules)) \o AllRuleMsgs(Tail(inputRules))

-----------------------------------------------------------------------------
(* Inputs of the command *)

ServiceNames == {"web"}

\* --cpu / --memory pairs given on the command line
ComputeShapes == { <<"256", "512">>, <<"256", "100">> }

\* the allowed CPU / memory combinations (the defaults of the flags are one)
AllowedShapes == { <<"256", "512">> }

validateCpuAndMemory(cpu, memory) == <<cpu, memory>> \in AllowedShapes

\* --image: none, or an explicit reference
NoImage == <<>>
ImageFlags == { NoImage, <<"nginx", ":", "1.0">> }

\* --port
PortFlags ==
    { <<"t","c","p",":","1","9","3","5">>,
      <<"H","T","T","P",":","8","0","8","0">>,
      <<"h","t","t","p","s",":","8","4","4","3">>,
      <<"H","t","t","p",":","1">>,
      <<"8","0","8","0">>,
      <<"6","5","5","3","5">>,
      <<"6","5","5","3","6">>,
      <<"0">>,
      <<"h","t","t","p",":","0">>,
      <<"u","d","p",":","5","3">>,
      <<"f","t","p",":","0">>,
      <<"u","d","p",":","7","0","0","0","0">> }

\* --lb
LbFlags == { "", "my-alb", "my-nlb", "missing" }

\* --rule entries
RuleFlags ==
    { <<"h","o","s","t","=","a",".","b">>,
      <<"P","A","T","H","=","/","x">>,
      <<"h","o","s","t","n","a","m","e","=","x">>,
      <<"x","p","a","t","h","=","y">>,
      <<"f","o","o","=","b">>,
      <<"h","o","s","t">>,
      <<"h","o","s","t","=","a","=","b">> }

\* every list of at most n --rule entries
RuleLists(n) == UNION { [1..k -> RuleFlags] : k \in 0..n }

\* --env
EnvFlags == { << <<"K","=","v">> >> }

\* extractEnvVars: KEY=value entries cut at the first separator
extractEnvVars(inputEnvVars) ==
    [i \in 1..Len(inputEnvVars) |->
        [Key   |-> SplitN2(inputEnvVars[i], "=")[1],
         Value |-> SplitN2(inputEnvVars[i], "=")[2]]]

-----------------------------------------------------------------------------
(* The collaborators, by the operations the command depends on *)

NoArn == <<>>

\* the load balancers of the account
LoadBalancers ==
    { [Name |-> "my-alb", Arn |-> <<"arn", "lb", "my-alb">>, Type |-> "application"],
      [Name |-> "my-nlb", Arn |-> <<"arn", "lb", "my-nlb">>, Type |-> "network"] }

\* the zero value of ELBV2.LoadBalancer
NoLoadBalancer == [Name |-> "", Arn |-> NoArn, Type |-> ""]

\* ELBV2.DescribeLoadBalancer: the described balancer, or a failure (which is
\* fatal); for the empty name the describe call either fails or describes nothing
DescribeLoadBalancer(lb) ==
    { [ok |-> TRUE, lb |-> b] : b \in { x \in LoadBalancers : x.Name = lb } }
    \cup (IF lb = "" THEN { [ok |-> TRUE, lb |-> NoLoadBalancer] } ELSE {})
    \cup { [ok |-> FALSE, lb |-> NoLoadBalancer] }

\* ECR: the canonical reference of a repository
RepositoryUri(name) == <<"ecr", name>>

\* ECR.CreateRepository: whether the call can succeed; the registry refuses a
\* name that exists (RepositoryAlreadyExistsException), and any call may fail
CreateRepositoryOutcomes(name, existing) ==
    IF name \in existing THEN {FALSE} ELSE BOOLEAN

\* docker.Repository.UriFor
UriFor(uri, tag) == uri \o <<":">> \o tag

\* EC2.GetDefaultVpcSubnetIds
SubnetChoices == { <<"subnet-a", "subnet-b">> }

DefaultVpcId == <<"vpc-default">>
ExecutionRoleArn == <<"arn", "role", "ecsTaskExecutionRole">>
logGroupFormat == "/fargate/service/%s"
region == "us-east-1"
clusterName == "fargate"
LogGroupName(format, name) == <<format, name>>

\* git.GetShortSha and docker.GenerateTag
ShortSha == <<"abc1234">>
GeneratedTag == <<"20180101000000">>

TargetGroupArn(name) == <<"arn", "targetgroup">> \o name

\* ECS.CreateTaskDefinition registers a new revision each time and returns its ARN
Revisions == {"1", "2"}
TaskDefinitionArn(name, revision) == <<"arn", "task-definition", name, revision>>

\* a collaborator call that fails ends the process (console.ErrorExit)
Proceed(ok, next) == IF ok THEN next ELSE "exit"

NoError == [title |-> "", msgs |-> <<>>]
RemoteError(op) == [title |-> "remote call failed", msgs |-> << [msg |-> op, arg |-> op] >>]

Call(op, arg, ok) == [op |-> op, arg |-> arg, ok |-> ok]

\* a call of which the log also keeps what it returned (nothing when it failed)
NoReturn == <<>>
Returned(op, arg, ok, ret) ==
    [op |-> op, arg |-> arg, ok |-> ok, ret |-> IF ok THEN ret ELSE NoReturn]

-----------------------------------------------------------------------------
(* The command: serviceCreateCmd.Run *)

\* mutant: Run binds the load balancer before it validates the port
RunOrder_LoadBalancerFirst ==
    <<"Validate", "SetLoadBalancer", "SetPort", "SetRules", "SetEnvVars", "IsRepositoryCreated">>

\* the handlers of Run in the order it calls them; createService starts with
\* ecr.IsRepositoryCreated
RunOrder ==
    <<"Validate", "SetPort", "SetLoadBalancer", "SetRules", "SetEnvVars", "IsRepositoryCreated">>

\* the position after handler h has returned
AfterHandler(h) ==
    RunOrder[(CHOOSE i \in 1..Len(RunOrder) : RunOrder[i] = h) + 1]

\* no operation of the ecs package is running, and a cluster that holds no task
NoOperation ==
    [op |-> "none", input |-> <<>>, pc |-> "idle", pages |-> <<>>, batches |-> <<>>,
     resp |-> <<>>, tasks |-> <<>>, calls |-> <<>>, exit |-> "", result |-> <<>>,
     changes |-> 0, started |-> {}]
NoFleet == <<>>

NoLocals ==
    [repositoryUri |-> NoArn, subnetIds |-> <<>>, ecsTaskExecutionRoleArn |-> NoArn,
     logGroupName |-> <<>>, tag |-> <<>>, vpcId |-> <<>>, targetGroupArn |-> NoArn,
     taskDefinitionArn |-> NoArn, ruleIdx |-> 0]

Init ==
    /\ pc = RunOrder[1]
    /\ \E name \in ServiceNames, shape \in ComputeShapes, image \in ImageFlags :
         operation = [ServiceName |-> name, Cpu |-> shape[1], Memory |-> shape[2],
                      Image |-> image, Port |-> NoPort, LoadBalancerArn |-> NoArn,
                      LoadBalancerName |-> "", Rules |-> <<>>, EnvVars |-> <<>>]
    /\ flags = [image |-> operation.Image, port |-> <<>>, lb |-> "", rules |-> <<>>]
    /\ fleet = NoFleet
    /\ last = NoOperation
    /\ repos \in SUBSET ServiceNames
    /\ calls = <<>>
    /\ err = NoError
    /\ local = NoLocals
    /\ created = <<>>

\* ServiceCreateOperation.Validate
Validate ==
    /\ pc = "Validate"
    /\ IF validateCpuAndMemory(operation.Cpu, operation.Memory)
       THEN pc' = AfterHandler("Validate") /\ err' = err
       ELSE pc' = "exit" /\ err' = [title |-> "Invalid settings", msgs |-> <<>>]
    /\ UNCHANGED <<taskVars, operation, flags, calls, local, repos, created>>

\* ServiceCreateOperation.SetPort
SetPort ==
    /\ pc = "SetPort"
    /\ \E inputPort \in PortFlags :
         LET port == inflatePort(inputPort)
             msgs == SetPortMsgs(port)
         IN  /\ flags' = [flags EXCEPT !.port = inputPort]
             /\ IF Len(msgs) > 0
                THEN /\ pc' = "exit"
                     /\ err' = [title |-> "Invalid command line flags", msgs |-> msgs]
                     /\ operation' = operation
                ELSE /\ pc' = AfterHandler("SetPort")
                     /\ err' = err
                     /\ operation' = [operation EXCEPT !.Port = port]
    /\ UNCHANGED <<taskVars, calls, local, repos, created>>

\* mutant: only the network kind is tested
LbIncompatible_NetworkOnly(type, protocol) ==
    type = "network" /\ protocol # <<"T","C","P">>

\* SetLoadBalancer, the compatibility test of balancer kind and protocol
LbIncompatible(type, protocol) ==
    \/ type = "network" /\ protocol # <<"T","C","P">>
    \/ type = "application"
         /\ ~(protocol = <<"H","T","T","P">> \/ protocol = <<"H","T","T","P","S">>)

\* ServiceCreateOperation.SetLoadBalancer
SetLoadBalancer ==
    /\ pc = "SetLoadBalancer"
    /\ \E lb \in LbFlags : \E out \in DescribeLoadBalancer(lb) :
         /\ flags' = [flags EXCEPT !.lb = lb]
         /\ calls' = Append(calls, Call("DescribeLoadBalancer", <<lb>>, out.ok))
         /\ IF ~out.ok
            THEN /\ pc' = "exit"
                 /\ err' = RemoteError("DescribeLoadBalancer")
                 /\ operation' = operation
            ELSE IF LbIncompatible(out.lb.Type, operation.Port.Protocol)
            THEN /\ pc' = "exit"
                 /\ err' = [title |-> "Invalid load balancer and protocol",
                            msgs |-> << [msg |-> out.lb.Type, arg |-> lb] >>]
                 /\ operation' = operation
            ELSE /\ pc' = AfterHandler("SetLoadBalancer")
                 /\ err' = err
                 /\ operation' = [operation EXCEPT !.LoadBalancerName = lb,
                                                   !.LoadBalancerArn = out.lb.Arn]
    /\ UNCHANGED <<taskVars, local, repos, created>>

\* mutant: the rules-without-balancer test is missing
LbMsgs_Forgotten(inputRules, loadBalancerArn) == <<>>

\* SetRules, the message of the rules-without-balancer test
LbMsgs(inputRules, loadBalancerArn) ==
    IF Len(inputRules) > 0 /\ loadBalancerArn = NoArn
    THEN << [msg |-> "lb must be configured if rules are specified", arg |-> <<>>] >>
    ELSE <<>>

\* ServiceCreateOperation.SetRules
SetRules ==
    /\ pc = "SetRules"
    /\ \E inputRules \in RuleLists(MaxRules) :
         LET msgs == LbMsgs(inputRules, operation.LoadBalancerArn) \o AllRuleMsgs(inputRules)
         IN  /\ flags' = [flags EXCEPT !.rules = inputRules]
             /\ IF \E i \in 1..Len(inputRules) : RulePanics(inputRules[i])
                THEN /\ pc' = "panic"
                     /\ err' = [title |-> "panic: index out of range", msgs |-> <<>>]
                     /\ operation' = operation
                ELSE IF Len(msgs) > 0
                THEN /\ pc' = "exit"
                     /\ err' = [title |-> "Invalid rule", msgs |-> msgs]
                     /\ operation' = operation
                ELSE /\ pc' = AfterHandler("SetRules")
                     /\ err' = err
                     /\ operation' = [operation EXCEPT !.Rules =
                                        [i \in 1..Len(inputRules) |-> RuleOf(inputRules[i])]]
    /\ UNCHANGED <<taskVars, calls, local, repos, created>>

\* ServiceCreateOperation.SetEnvVars; createService follows
SetEnvVars ==
    /\ pc = "SetEnvVars"
    /\ \E inputEnvVars \in EnvFlags :
         operation' = [operation EXCEPT !.EnvVars = extractEnvVars(inputEnvVars)]
    /\ pc' = AfterHandler("SetEnvVars")
    /\ UNCHANGED <<taskVars, flags, calls, err, local, repos, created>>

-----------------------------------------------------------------------------
(* createService: one action per collaborator call, in program order *)

\* the effect of one call on the position, the call log and the reported error
Issue(op, arg, ok, next) ==
    /\ calls' = Append(calls, Call(op, arg, ok))
    /\ pc' = Proceed(ok, next)
    /\ err' = IF ok THEN err ELSE RemoteError(op)

\* as Issue, for a call whose return value the log keeps
IssueReturned(op, arg, ok, ret, next) ==
    /\ calls' = Append(calls, Returned(op, arg, ok, ret))
    /\ pc' = Proceed(ok, next)
    /\ err' = IF ok THEN err ELSE RemoteError(op)

\* mutant: the repository is created without looking at the existence check
AfterIsRepositoryCreated_AlwaysCreate(exists) == "CreateRepository"

\* if ecr.IsRepositoryCreated(...) { GetRepositoryUri } else { CreateRepository }
AfterIsRepositoryCreated(exists) ==
    IF exists THEN "GetRepositoryUri" ELSE "CreateRepository"

\* mutant: the log group is acquired right after the repository, before the
\* subnets and the execution role
AfterRepository_LogGroupFirst == "CreateLogGroup"

\* after the repository: subnets, execution role, log group
AfterRepository == "GetDefaultVpcSubnetIds"
AfterSubnets == "CreateEcsTaskExecutionRole"
AfterRole == "CreateLogGroup"

\* if operation.LoadBalancerArn != "" { wiring }; CreateTaskDefinition follows
AfterImage(o) ==
    IF o.LoadBalancerArn # NoArn THEN "GetDefaultVpcId" ELSE "CreateTaskDefinition"

\* mutant: the image is built and pushed whether or not one was supplied
AfterLogGroup_AlwaysBuild(o) == "GetUsernameAndPassword"

\* if operation.Image == "" { credentials, tag, login, build, push }
AfterLogGroup(o) ==
    IF o.Image = NoImage THEN "GetUsernameAndPassword" ELSE AfterImage(o)

\* mutant: the default action is replaced whether or not rules are configured
AfterTargetGroup_AlwaysDefault(o) == "ModifyLoadBalancerDefaultAction"

\* if len(operation.Rules) > 0 { AddRule per rule } else { ModifyLoadBalancerDefaultAction }
AfterTargetGroup(o) ==
    IF Len(o.Rules) > 0 THEN "AddRule" ELSE "ModifyLoadBalancerDefaultAction"

\* for _, rule := range operation.Rules: the position after the idx-th AddRule
AfterAddRule(o, idx) ==
    IF idx < Len(o.Rules) THEN "AddRule" ELSE "CreateTaskDefinition"

IsRepositoryCreated ==
    /\ pc = "IsRepositoryCreated"
    /\ \E ok \in BOOLEAN :
         Issue("IsRepositoryCreated", <<operation.ServiceName>>, ok,
               AfterIsRepositoryCreated(operation.ServiceName \in repos))
    /\ UNCHANGED <<taskVars, operation, flags, local, repos, created>>

GetRepositoryUri ==
    /\ pc = "GetRepositoryUri"
    /\ \E ok \in BOOLEAN :
         /\ IssueReturned("GetRepositoryUri", <<operation.ServiceName>>, ok,
                          RepositoryUri(operation.ServiceName), AfterRepository)
         /\ local' = IF ok
                     THEN [local EXCEPT !.repositoryUri = RepositoryUri(operation.ServiceName)]
                     ELSE local
    /\ UNCHANGED <<taskVars, operation, flags, repos, created>>

CreateRepository ==
    /\ pc = "CreateRepository"
    /\ \E ok \in CreateRepositoryOutcomes(operation.ServiceName, repos) :
         /\ IssueReturned("CreateRepository", <<operation.ServiceName>>, ok,
                          RepositoryUri(operation.ServiceName), AfterRepository)
         /\ local' = IF ok
                     THEN [local EXCEPT !.repositoryUri = RepositoryUri(operation.ServiceName)]
                     ELSE local
         /\ repos' = IF ok THEN repos \cup {operation.ServiceName} ELSE repos
         /\ created' = IF ok
                       THEN Append(created, [kind |-> "repository",
                                             id |-> RepositoryUri(operation.ServiceName)])
                       ELSE created
    /\ UNCHANGED <<taskVars, operation, flags>>

GetDefaultVpcSubnetIds ==
    /\ pc = "GetDefaultVpcSubnetIds"
    /\ \E ok \in BOOLEAN, ids \in SubnetChoices :
         /\ IssueReturned("GetDefaultVpcSubnetIds", <<>>, ok, ids, AfterSubnets)
         /\ local' = IF ok THEN [local EXCEPT !.subnetIds = ids] ELSE local
    /\ UNCHANGED <<taskVars, operation, flags, repos, created>>

CreateEcsTaskExecutionRole ==
    /\ pc = "CreateEcsTaskExecutionRole"
    /\ \E ok \in BOOLEAN :
         /\ Issue("CreateEcsTaskExecutionRole", <<>>, ok, AfterRole)
         /\ local' = IF ok
                     THEN [local EXCEPT !.ecsTaskExecutionRoleArn = ExecutionRoleArn]
                     ELSE local
         /\ created' = IF ok
                       THEN Append(created, [kind |-> "role", id |-> ExecutionRoleArn])
                       ELSE created
    /\ UNCHANGED <<taskVars, operation, flags, repos>>

CreateLogGroup ==
    /\ pc = "CreateLogGroup"
    /\ \E ok \in BOOLEAN :
         /\ Issue("CreateLogGroup", <<logGroupFormat, operation.ServiceName>>, ok,
                  AfterLogGroup(operation))
         /\ local' = IF ok
                     THEN [local EXCEPT !.logGroupName =
                             LogGroupName(logGroupFormat, operation.ServiceName)]
                     ELSE local
         /\ created' = IF ok
                       THEN Append(created,
                              [kind |-> "logGroup",
                               id |-> LogGroupName(logGroupFormat, operation.ServiceName)])
                       ELSE created
    /\ UNCHANGED <<taskVars, operation, flags, repos>>

GetUsernameAndPassword ==
    /\ pc = "GetUsernameAndPassword"
    /\ \E ok \in BOOLEAN : Issue("GetUsernameAndPassword", <<>>, ok, "DeriveTag")
    /\ UNCHANGED <<taskVars, operation, flags, local, repos, created>>

\* if git.IsCwdGitRepo() { tag = git.GetShortSha() } else { tag = docker.GenerateTag() }
DeriveTag ==
    /\ pc = "DeriveTag"
    /\ \E isGitRepo \in BOOLEAN :
         /\ calls' = calls \o << Call("IsCwdGitRepo", <<isGitRepo>>, TRUE),
                                 Call(IF isGitRepo THEN "GetShortSha" ELSE "GenerateTag",
                                      <<>>, TRUE) >>
         /\ local' = [local EXCEPT !.tag = IF isGitRepo THEN ShortSha ELSE GeneratedTag]
    /\ pc' = "Login"
    /\ UNCHANGED <<taskVars, operation, flags, err, repos, created>>

Login ==
    /\ pc = "Login"
    /\ \E ok \in BOOLEAN : Issue("Login", local.repositoryUri, ok, "Build")
    /\ UNCHANGED <<taskVars, operation, flags, local, repos, created>>

Build ==
    /\ pc = "Build"
    /\ \E ok \in BOOLEAN : Issue("Build", local.tag, ok, "Push")
    /\ UNCHANGED <<taskVars, operation, flags, local, repos, created>>

\* repository.Push(tag); operation.Image = repository.UriFor(tag)
Push ==
    /\ pc = "Push"
    /\ \E ok \in BOOLEAN :
         /\ Issue("Push", local.tag, ok, AfterImage(operation))
         /\ operation' = IF ok
                         THEN [operation EXCEPT !.Image = UriFor(local.repositoryUri, local.tag)]
                         ELSE operation
         /\ created' = IF ok
                       THEN Append(created, [kind |-> "image",
                                             id |-> UriFor(local.repositoryUri, local.tag)])
                       ELSE created
    /\ UNCHANGED <<taskVars, flags, local, repos>>

GetDefaultVpcId ==
    /\ pc = "GetDefaultVpcId"
    /\ \E ok \in BOOLEAN :
         /\ Issue("GetDefaultVpcId", <<>>, ok, "CreateTargetGroup")
         /\ local' = IF ok THEN [local EXCEPT !.vpcId = DefaultVpcId] ELSE local
    /\ UNCHANGED <<taskVars, operation, flags, repos, created>>

\* the CreateTargetGroupInput of createService
TargetGroupInput(o, vpcId) ==
    [Name     |-> <<o.LoadBalancerName, "-", o.ServiceName>>,
     Port     |-> o.Port.Port,
     Protocol |-> o.Port.Protocol,
     VpcId    |-> vpcId]

CreateTargetGroup ==
    /\ pc = "CreateTargetGroup"
    /\ \E ok \in BOOLEAN :
         LET input == TargetGroupInput(operation, local.vpcId)
         IN  /\ IssueReturned("CreateTargetGroup", input, ok, TargetGroupArn(input.Name),
                              AfterTargetGroup(operation))
             /\ local' = IF ok
                         THEN [local EXCEPT !.targetGroupArn = TargetGroupArn(input.Name)]
                         ELSE local
             /\ created' = IF ok
                           THEN Append(created, [kind |-> "targetGroup",
                                                 id |-> TargetGroupArn(input.Name)])
                           ELSE created
    /\ UNCHANGED <<taskVars, operation, flags, repos>>

\* one iteration of the loop over operation.Rules
AddRule ==
    /\ pc = "AddRule"
    /\ \E ok \in BOOLEAN :
         LET idx  == local.ruleIdx + 1
             rule == operation.Rules[idx]
             arg  == [lb |-> operation.LoadBalancerArn, tg |-> local.targetGroupArn,
                      rule |-> rule]
         IN  /\ Issue("AddRule", arg, ok, AfterAddRule(operation, idx))
             /\ local' = IF ok THEN [local EXCEPT !.ruleIdx = idx] ELSE local
             /\ created' = IF ok
                           THEN Append(created, [kind |-> "rule", id |-> arg])
                           ELSE created
    /\ UNCHANGED <<taskVars, operation, flags, repos>>

ModifyLoadBalancerDefaultAction ==
    /\ pc = "ModifyLoadBalancerDefaultAction"
    /\ \E ok \in BOOLEAN :
         LET arg == [lb |-> operation.LoadBalancerArn, tg |-> local.targetGroupArn]
         IN  /\ Issue("ModifyLoadBalancerDefaultAction", arg, ok, "CreateTaskDefinition")
             /\ created' = IF ok
                           THEN Append(created, [kind |-> "defaultAction", id |-> arg])
                           ELSE created
    /\ UNCHANGED <<taskVars, operation, flags, local, repos>>

\* the CreateTaskDefinitionInput of createService
TaskDefinitionInput(o, l) ==
    [Cpu |-> o.Cpu, EnvVars |-> o.EnvVars, ExecutionRoleArn |-> l.ecsTaskExecutionRoleArn,
     Image |-> o.Image, Memory |-> o.Memory, Name |-> o.ServiceName,
     Port |-> o.Port.Port, LogGroupName |-> l.logGroupName, LogRegion |-> region]

CreateTaskDefinition ==
    /\ pc = "CreateTaskDefinition"
    /\ \E ok \in BOOLEAN, revision \in Revisions :
         LET input == TaskDefinitionInput(operation, local)
             arn   == TaskDefinitionArn(input.Name, revision)
         IN  /\ IssueReturned("CreateTaskDefinition", input, ok, arn, "CreateService")
             /\ local' = IF ok THEN [local EXCEPT !.taskDefinitionArn = arn] ELSE local
             /\ created' = IF ok
                           THEN Append(created, [kind |-> "taskDefinition", id |-> input])
                           ELSE created
    /\ UNCHANGED <<taskVars, operation, flags, repos>>

\* mutant: the service is created without the target group of the deployment
ServiceInput_NoTargetGroup(o, l) ==
    [Cluster |-> clusterName, Name |-> o.ServiceName, Port |-> o.Port.Port,
     SubnetIds |-> l.subnetIds,
     TargetGroupArn |-> NoArn, TaskDefinitionArn |-> l.taskDefinitionArn]

\* the CreateServiceInput of createService
ServiceInput(o, l) ==
    [Cluster |-> clusterName, Name |-> o.ServiceName, Port |-> o.Port.Port,
     SubnetIds |-> l.subnetIds,
     TargetGroupArn |-> l.targetGroupArn, TaskDefinitionArn |-> l.taskDefinitionArn]

\* mutant: a failed CreateService call is issued again
CreateService_Retry ==
    /\ pc = "CreateService"
    /\ \E ok \in BOOLEAN :
         LET input == ServiceInput(operation, local)
         IN  /\ calls' = Append(calls, Call("CreateService", input, ok))
             /\ pc' = IF ok THEN "done" ELSE "CreateService"
             /\ err' = err
             /\ created' = IF ok
                           THEN Append(created, [kind |-> "service", id |-> input])
                           ELSE created
    /\ UNCHANGED <<taskVars, operation, flags, local, repos>>

CreateService ==
    /\ pc = "CreateService"
    /\ \E ok \in BOOLEAN :
         LET input == ServiceInput(operation, local)
         IN  /\ Issue("CreateService", input, ok, "done")
             /\ created' = IF ok
                           THEN Append(created, [kind |-> "service", id |-> input])
                           ELSE created
    /\ UNCHANGED <<taskVars, operation, flags, local, repos>>

Next ==
    \/ Validate
    \/ SetPort
    \/ SetLoadBalancer
    \/ SetRules
    \/ SetEnvVars
    \/ IsRepositoryCreated
    \/ GetRepositoryUri
    \/ CreateRepository
    \/ GetDefaultVpcSubnetIds
    \/ CreateEcsTaskExecutionRole
    \/ CreateLogGroup
    \/ GetUsernameAndPassword
    \/ DeriveTag
    \/ Login
    \/ Build
    \/ Push
    \/ GetDefaultVpcId
    \/ CreateTargetGroup
    \/ AddRule
    \/ ModifyLoadBalancerDefaultAction
    \/ CreateTaskDefinition
    \/ CreateService

Spec == Init /\ [][Next]_vars

\* ---------------------------------------------------------------------------
\* Repository acquisition on its own (createService, step 1), run again and
\* again against one registry: every deployment of a service starts with it.

\* the services deployed, and how many acquisitions are followed
RepoNames == {"web", "api"}
MaxAcquisitions == 3

InitRepo ==
    /\ pc = "IsRepositoryCreated"
    /\ \E name \in RepoNames :
         operation = [ServiceName |-> name, Cpu |-> "256", Memory |-> "512",
                      Image |-> NoImage, Port |-> NoPort, LoadBalancerArn |-> NoArn,
                      LoadBalancerName |-> "", Rules |-> <<>>, EnvVars |-> <<>>]
    /\ flags = [image |-> NoImage, port |-> <<>>, lb |-> "", rules |-> <<>>]
    /\ fleet = NoFleet
    /\ last = NoOperation
    /\ repos \in SUBSET RepoNames
    /\ calls = <<>>
    /\ err = NoError
    /\ local = NoLocals
    /\ created = <<>>

\* the next deployment reaches step 1: a new process, with fresh locals, against
\* the registry the earlier ones left
Reacquire ==
    /\ pc \in {AfterRepository, "exit"}
    /\ Cardinality({ i \in 1..Len(calls) : calls[i].op = "IsRepositoryCreated" })
         < MaxAcquisitions
    /\ \E name \in RepoNames : operation' = [operation EXCEPT !.ServiceName = name]
    /\ pc' = "IsRepositoryCreated"
    /\ local' = NoLocals
    /\ err' = NoError
    /\ UNCHANGED <<taskVars, flags, calls, repos, created>>

NextRepo ==
    \/ IsRepositoryCreated
    \/ GetRepositoryUri
    \/ CreateRepository
    \/ Reacquire

SpecRepo == InitRepo /\ [][NextRepo]_vars

-----------------------------------------------------------------------------
(* The task inventory and lifecycle control of package ecs (ecs/task.go) *)

\* most tasks ever started in the cluster, most tasks one RunTask starts,
\* longest list of identifiers given to StopTasks, and most changes of the
\* cluster by others while one command runs
MaxTasks == 3
MaxCount == 2
MaxStops == 2
MaxChanges == 1

detailNetworkInterfaceId == "networkInterfaceId"
detailSubnetId == "subnetId"
eniAttachmentType == "ElasticNetworkInterface"

\* "fargate:%s": the text before the verb
startedByFormat == <<"f", "a", "r", "g", "a", "t", "e", ":">>

\* fmt.Sprintf(startedByFormat, name)
Sprintf(format, name) == format \o name

\* "fargate:(.*)": the literal before the group; the group takes the rest of the
\* text (the tags of the model hold no line break)
taskGroupStartedByPattern == <<"f", "a", "r", "g", "a", "t", "e", ":">>

\* the positions of text at which the literal lit occurs
Occurrences(text, lit) ==
    { i \in 1..(Len(text) - Len(lit) + 1) : SubSeq(text, i, i + Len(lit) - 1) = lit }

\* regexp.FindStringSubmatch for a pattern lit(.*): the leftmost match and its
\* group, or nothing
FindStringSubmatch(lit, text) ==
    IF Occurrences(text, lit) = {}
    THEN <<>>
    ELSE LET i == CHOOSE k \in Occurrences(text, lit) : \A h \in Occurrences(text, lit) : k <= h
         IN  <<SubSeq(text, i, Len(text)), SubSeq(text, i + Len(lit), Len(text))>>

\* mutant: a task of a group already seen opens another group
Tally_AlwaysAppend(taskGroups, taskGroupName) ==
    Append(taskGroups, [TaskGroupName |-> taskGroupName, Instances |-> 1])

\* ListTaskGroups, the body of the loop for a matching task: the group of that
\* name is incremented, or a new group of one instance appended
Tally(taskGroups, taskGroupName) ==
    IF \E k \in 1..Len(taskGroups) : taskGroups[k].TaskGroupName = taskGroupName
    THEN LET first == CHOOSE k \in 1..Len(taskGroups) :
                         /\ taskGroups[k].TaskGroupName = taskGroupName
                         /\ \A h \in 1..(k-1) : taskGroups[h].TaskGroupName # taskGroupName
         IN  [taskGroups EXCEPT ![first].Instances = @ + 1]
    ELSE Append(taskGroups, [TaskGroupName |-> taskGroupName, Instances |-> 1])

RECURSIVE GroupTasks(_, _)
\* ListTaskGroups, the loop over the tasks listTasks returned
GroupTasks(tasks, taskGroups) ==
    IF tasks = <<>>
    THEN taskGroups
    ELSE LET matches == FindStringSubmatch(taskGroupStartedByPattern, Head(tasks).StartedBy)
         IN  GroupTasks(Tail(tasks),
                        IF Len(matches) = 2 THEN Tally(taskGroups, matches[2]) ELSE taskGroups)

RECURSIVE ScanDetails(_, _)
\* determineENIDetails, the loop over the details of one attachment
ScanDetails(details, found) ==
    IF details = <<>>
    THEN found
    ELSE LET detail == Head(details)
         IN  ScanDetails(Tail(details),
                         CASE detail.Name = detailNetworkInterfaceId ->
                                  [found EXCEPT !.eniId = detail.Value]
                           [] detail.Name = detailSubnetId ->
                                  [found EXCEPT !.subnetId = detail.Value]
                           [] OTHER -> found)

RECURSIVE ScanAttachments_AnyType(_, _)
\* mutant: the details of every attachment are read, whatever its type
ScanAttachments_AnyType(attachments, found) ==
    IF attachments = <<>>
    THEN found
    ELSE ScanAttachments_AnyType(Tail(attachments),
                                 ScanDetails(Head(attachments).Details,
                                             [found EXCEPT !.foundEni = TRUE]))

RECURSIVE ScanAttachments(_, _)
\* determineENIDetails, the loop over the attachments
ScanAttachments(attachments, found) ==
    IF attachments = <<>>
    THEN found
    ELSE ScanAttachments(Tail(attachments),
                         IF Head(attachments).Type # eniAttachmentType
                         THEN found
                         ELSE ScanDetails(Head(attachments).Details,
                                          [found EXCEPT !.foundEni = TRUE]))

determineENIDetails(t) ==
    ScanAttachments(t.Attachments, [foundEni |-> FALSE, eniId |-> "", subnetId |-> ""])

\* strings.Split(taskArn, "/"), the last piece
RECURSIVE LastPiece(_, _)
LastPiece(s, sep) ==
    IF Index(s, sep) = 0 THEN s ELSE LastPiece(SubSeq(s, Index(s, sep) + 1, Len(s)), sep)

\* --- the platform: the tasks of the cluster ---

\* the logical names tasks are run under
TaskNames == { <<"w", "e", "b">>, <<"w", "o", "r", "k", "e", "r">> }

\* a network-interface attachment, and an attachment of another kind that also
\* carries an interface detail
Eni(eniId, subnetId) ==
    [Type |-> eniAttachmentType,
     Details |-> << [Name |-> detailSubnetId, Value |-> subnetId],
                    [Name |-> "macAddress", Value |-> "0a:1b"],
                    [Name |-> detailNetworkInterfaceId, Value |-> eniId] >>]
EniWithoutSubnet(eniId) ==
    [Type |-> eniAttachmentType,
     Details |-> << [Name |-> detailNetworkInterfaceId, Value |-> eniId] >>]
OtherAttachment ==
    [Type |-> "Other",
     Details |-> << [Name |-> detailNetworkInterfaceId, Value |-> "eni-x"],
                    [Name |-> detailSubnetId, Value |-> "subnet-x"] >>]

\* the ARN of the k-th task started in the cluster, and its identifier; an ARN
\* is never given twice
TaskArn(k) == <<"t", "a", "s", "k", "/", "c", "/", ToString(k)>>
TaskIdOf(k) == <<ToString(k)>>

\* the place of a task not started yet, and what is left of a stopped task
NoTask ==
    [TaskArn |-> <<>>, DesiredStatus |-> "", StartedBy |-> <<>>, Service |-> "",
     TaskDefinitionArn |-> NoArn, Attachments |-> <<>>]
StoppedTask(k) == [NoTask EXCEPT !.TaskArn = TaskArn(k), !.DesiredStatus = "STOPPED"]

\* a task the platform starts for RunTask: tagged as asked, with its interface
StartedTask(k, request) ==
    [TaskArn |-> TaskArn(k), DesiredStatus |-> "RUNNING", StartedBy |-> request.StartedBy,
     Service |-> "", TaskDefinitionArn |-> request.TaskDefinition,
     Attachments |-> << Eni("eni-1", "subnet-a") >>]

\* tasks that others start in the cluster: one run under the name web by
\* another operator, one whose tag holds the format after another character, one
\* of a service deployment, one without tag or attachment
ForeignTasks ==
    { [StartedBy |-> Sprintf(startedByFormat, <<"w", "e", "b">>), Service |-> "",
       Attachments |-> << Eni("eni-1", "subnet-a") >>],
      [StartedBy |-> <<"x">> \o Sprintf(startedByFormat, <<"w", "e", "b">>), Service |-> "",
       Attachments |-> << OtherAttachment >>],
      [StartedBy |-> <<"e", "c", "s", "-", "s", "v", "c", "/", "7">>, Service |-> "web",
       Attachments |-> << OtherAttachment, Eni("eni-2", "subnet-b"), EniWithoutSubnet("eni-3") >>],
      [StartedBy |-> <<>>, Service |-> "", Attachments |-> <<>>] }

ForeignTask(k, t) ==
    [TaskArn |-> TaskArn(k), DesiredStatus |-> "RUNNING", StartedBy |-> t.StartedBy,
     Service |-> t.Service, TaskDefinitionArn |-> TaskDefinitionArn("web", "1"),
     Attachments |-> t.Attachments]

\* the places of a cluster left for new tasks, and those of its running tasks
Free(f) == { k \in 1..Len(f) : f[k] = NoTask }
Held(f) == { k \in 1..Len(f) : f[k].DesiredStatus = "RUNNING" }

\* the n lowest of a set of places
RECURSIVE Lowest(_, _)
Lowest(slots, n) ==
    IF n = 0 \/ slots = {}
    THEN {}
    ELSE LET k == CHOOSE x \in slots : \A y \in slots : x <= y
         IN  {k} \cup Lowest(slots \ {k}, n - 1)

\* ListTasks of the platform: the ARNs of the running tasks that pass the
\* filter, in the order the tasks were started
Passes(t, input) ==
    /\ t.DesiredStatus = "RUNNING"
    /\ input.StartedBy # <<>> => t.StartedBy = input.StartedBy
    /\ input.ServiceName # "" => t.Service = input.ServiceName
ListTasks(f, input) ==
    LET passing == SelectSeq(f, LAMBDA t : Passes(t, input))
    IN  [k \in 1..Len(passing) |-> passing[k].TaskArn]

\* the number of ARNs the platform puts on a page
PageSizes == {1, 2}

\* the place of the last task the paginator was handed, which its next token
\* stands for: the listing goes on after it
Cursor(f, pages) ==
    IF pages = <<>>
    THEN 0
    ELSE LET page == pages[Len(pages)]
         IN  CHOOSE k \in 1..Len(f) : f[k].TaskArn = page[Len(page)]

\* one ListTasks request, answered for the cluster as it is now: the next
\* page of the listing, and a token when tasks are left for another page
ListTasksOutput(f, input, pages, size) ==
    LET from == Cursor(f, pages)
        left == ListTasks([k \in 1..Len(f) |-> IF k > from THEN f[k] ELSE NoTask], input)
    IN  [TaskArns  |-> SubSeq(left, 1, IF Len(left) < size THEN Len(left) ELSE size),
         NextToken |-> Len(left) > size]

\* DescribeTasks of the platform: the records of the running tasks among those
\* asked for, by ARN or by identifier, in the order asked; a task that has
\* stopped is reported as a failure of the response, not as a record
Record(f, taskId) ==
    SelectSeq(f, LAMBDA t : /\ t.DesiredStatus = "RUNNING"
                            /\ taskId \in {t.TaskArn, LastPiece(t.TaskArn, "/")})
RECURSIVE Records(_, _)
Records(f, taskIds) ==
    IF taskIds = <<>> THEN <<>> ELSE Record(f, Head(taskIds)) \o Records(f, Tail(taskIds))

\* ECS.DescribeTaskDefinition and ECS.GetRevisionNumber
DescribeTaskDefinition(arn) ==
    [Image |-> <<"image", arn[3], arn[4]>>, TaskRoleArn |-> NoArn, Environment |-> <<>>]
GetRevisionNumber(arn) == arn[4]

\* the title console.ErrorExit is given when a call of the platform fails
ErrorTitle(op) ==
    CASE op = "RunTask" -> "Could not run ECS task"
      [] op = "StopTask" -> "Could not stop ECS task"
      [] op = "ListTasksPages" -> "Could not list ECS tasks"
      [] op = "DescribeTasks" -> "Could not describe ECS tasks"
      [] OTHER -> "Could not describe ECS task definition"

\* --- the operations of package ecs, remote call by remote call ---

\* a command of package ecs that has just been started
Process(op, input) == [NoOperation EXCEPT !.op = op, !.input = input, !.pc = "started"]

\* a command is under way; a command has returned or was ended by ErrorExit
Running(p) == p.pc \notin {"idle", "done", "exit"}
Finished(p) == p.pc \in {"done", "exit"}

\* console.ErrorExit after the call op failed
ErrorExit(p, op) == [p EXCEPT !.pc = "exit", !.exit = ErrorTitle(op)]

\* DescribeTasks, the body of the loop: the Task made of one record of the
\* platform (the fields copied unchanged from the record are left out, but for
\* StartedBy and DesiredStatus)
TaskOf(t) ==
    LET taskDefinition == DescribeTaskDefinition(t.TaskDefinitionArn)
        found == determineENIDetails(t)
    IN  [TaskId        |-> LastPiece(t.TaskArn, "/"),
         StartedBy     |-> t.StartedBy,
         DesiredStatus |-> t.DesiredStatus,
         DeploymentId  |-> GetRevisionNumber(t.TaskDefinitionArn),
         Image         |-> taskDefinition.Image,
         TaskRole      |-> taskDefinition.TaskRoleArn,
         EnvVars       |-> taskDefinition.Environment,
         EniId         |-> IF found.foundEni THEN found.eniId ELSE "",
         SubnetId      |-> IF found.foundEni THEN found.subnetId ELSE ""]

\* mutant: the page is merged into the batch before it
taskArnBatches_Merged(batches, page) ==
    IF Len(page) = 0 THEN batches
    ELSE IF batches = <<>> THEN <<page>>
    ELSE <<batches[1] \o page>>

\* listTasks, the callback of ListTasksPages run on a page: a page that holds
\* an ARN is appended as a batch of its own
taskArnBatches(batches, page) == IF Len(page) > 0 THEN Append(batches, page) ELSE batches

\* what a query makes of the tasks listTasks returned: ListTaskGroups groups
\* them, the others return them
Answer(op, tasks) == IF op = "ListTaskGroups" THEN GroupTasks(tasks, <<>>) ELSE tasks

\* listTasks, after the tasks of a batch: the next batch is described, or the
\* tasks are returned to the query
AfterBatch(p) ==
    IF p.batches = <<>>
    THEN [p EXCEPT !.pc = "done", !.result = Answer(p.op, p.tasks)]
    ELSE [p EXCEPT !.pc = "DescribeTasks"]

\* DescribeTasks, the loop over resp.Tasks: the next record is enriched, or
\* the tasks of the batch are returned to listTasks
AfterTask(p) == IF p.resp # <<>> THEN [p EXCEPT !.pc = "DescribeTaskDefinition"] ELSE AfterBatch(p)

\* the ListTasksInput of the three queries
UnfilteredInput == [Cluster |-> clusterName, StartedBy |-> <<>>, ServiceName |-> ""]
TaskGroupInput(taskGroupName) ==
    [Cluster |-> clusterName, StartedBy |-> Sprintf(startedByFormat, taskGroupName),
     ServiceName |-> ""]
ServiceTasksInput(serviceName) ==
    [Cluster |-> clusterName, LaunchType |-> "FARGATE", StartedBy |-> <<>>,
     ServiceName |-> serviceName]

\* the size of the pages of a listing: the platform's choice at the first
\* request, the size of the first page after it
PageSizeOf(p) == IF p.pages = <<>> THEN PageSizes ELSE {Len(p.pages[1])}

\* ListTasksPages, one request of the paginator for the command p: the request
\* fails, or the callback is run on the page and the paginator goes on to the
\* next page, or, without a token, returns to listTasks
ListTasksPages(p) ==
    /\ \E size \in PageSizeOf(p), ok \in BOOLEAN :
         LET resp   == ListTasksOutput(fleet, p.input, p.pages, size)
             called == [p EXCEPT !.calls = Append(@, Returned("ListTasks", p.input, ok, resp))]
             paged  == [called EXCEPT !.pages = Append(@, resp.TaskArns),
                                      !.batches = taskArnBatches(@, resp.TaskArns)]
         IN  last' = IF ~ok THEN ErrorExit(called, "ListTasksPages")
                     ELSE IF resp.NextToken THEN [paged EXCEPT !.pc = "ListTasksPages"]
                     ELSE AfterBatch(paged)
    /\ UNCHANGED <<svcVars, fleet>>

\* the three queries are called: each hands its input to listTasks, which
\* sends the first request of the listing
DescribeTasksForService ==
    /\ last = NoOperation
    /\ \E serviceName \in ServiceNames :
         ListTasksPages(Process("DescribeTasksForService", ServiceTasksInput(serviceName)))

DescribeTasksForTaskGroup ==
    /\ last = NoOperation
    /\ \E taskGroupName \in TaskNames :
         ListTasksPages(Process("DescribeTasksForTaskGroup", TaskGroupInput(taskGroupName)))

ListTaskGroups ==
    /\ last = NoOperation
    /\ ListTasksPages(Process("ListTaskGroups", UnfilteredInput))

\* the paginator of a running query requests the page after the one it was
\* handed
NextPage ==
    /\ last.pc = "ListTasksPages"
    /\ ListTasksPages(last)

\* ECS.DescribeTasks for the next batch: the call of the platform, answered for
\* the cluster as it is now
DescribeTasks ==
    /\ last.pc = "DescribeTasks"
    /\ \E ok \in BOOLEAN :
         LET taskIds == Head(last.batches)
             resp    == Records(fleet, taskIds)
             called  == [last EXCEPT
                            !.calls = Append(@, Returned("DescribeTasks", taskIds, ok, resp)),
                            !.batches = Tail(@)]
         IN  last' = IF ~ok
                     THEN ErrorExit(called, "DescribeTasks")
                     ELSE AfterTask([called EXCEPT !.resp = resp])
    /\ UNCHANGED <<svcVars, fleet>>

\* ECS.DescribeTasks, one turn of the loop over resp.Tasks: the task definition
\* is fetched and the task appended
EnrichTask ==
    /\ last.pc = "DescribeTaskDefinition"
    /\ \E ok \in BOOLEAN :
         LET t      == Head(last.resp)
             called == [last EXCEPT
                           !.calls = Append(@, Call("DescribeTaskDefinition",
                                                    t.TaskDefinitionArn, ok)),
                           !.resp = Tail(@)]
         IN  last' = IF ~ok
                     THEN ErrorExit(called, "DescribeTaskDefinition")
                     ELSE AfterTask([called EXCEPT !.tasks = Append(@, TaskOf(t))])
    /\ UNCHANGED <<svcVars, fleet>>

\* the RunTaskInput RunTask hands to the platform
RunTaskRequest(i) ==
    [Cluster |-> i.ClusterName, Count |-> i.Count, TaskDefinition |-> i.TaskDefinitionArn,
     LaunchType |-> "FARGATE", StartedBy |-> Sprintf(startedByFormat, i.TaskName),
     AssignPublicIp |-> "ENABLED", Subnets |-> i.SubnetIds,
     SecurityGroups |-> i.SecurityGroupIds]

RunTask ==
    \E taskName \in TaskNames, count \in 1..MaxCount, ok \in BOOLEAN :
        LET i == [ClusterName |-> clusterName, Count |-> count, TaskName |-> taskName,
                  TaskDefinitionArn |-> TaskDefinitionArn("web", "1"),
                  SubnetIds |-> <<"subnet-a">>, SecurityGroupIds |-> <<"sg-1">>]
            request == RunTaskRequest(i)
            slots   == IF ok THEN Lowest(Free(fleet), request.Count) ELSE {}
            called  == [Process("RunTask", i) EXCEPT !.calls = <<Call("RunTask", request, ok)>>,
                                                     !.started = slots]
        IN  /\ last = NoOperation
            /\ Cardinality(Free(fleet)) >= count
            /\ fleet' = [k \in 1..Len(fleet) |->
                           IF k \in slots THEN StartedTask(k, request) ELSE fleet[k]]
            /\ last' = IF ok THEN [called EXCEPT !.pc = "done"] ELSE ErrorExit(called, "RunTask")
            /\ UNCHANGED svcVars

\* the lists of identifiers StopTasks is given: running tasks, each once
StopLists(f) ==
    { ids \in UNION { [1..n -> Held(f)] : n \in 0..MaxStops } :
        \A a, b \in 1..Len(ids) : a # b => ids[a] # ids[b] }

\* mutant: the stops after a failed one are still issued
AfterStopTask_BestEffort(ok, more) == IF more THEN "StopTask" ELSE "done"

\* StopTasks, after one StopTask: ErrorExit when it failed, else the next
\* identifier of the list
AfterStopTask(ok, more) == IF ~ok THEN "exit" ELSE IF more THEN "StopTask" ELSE "done"

\* ECS.StopTasks is called with a list of identifiers
StopTasks ==
    /\ last = NoOperation
    /\ \E slots \in StopLists(fleet) :
         LET taskIds == [k \in 1..Len(slots) |-> TaskIdOf(slots[k])]
         IN  last' = [Process("StopTasks", taskIds) EXCEPT
                         !.pc = AfterStopTask(TRUE, Len(taskIds) > 0)]
    /\ UNCHANGED <<svcVars, fleet>>

\* the callers of ECS.StopTask: the loop of StopTasks at its next identifier,
\* or a command that stops one running task
StopTaskCallers(p, f) ==
    IF p.pc = "StopTask" THEN {p}
    ELSE IF p.pc = "idle" THEN { Process("StopTask", <<TaskIdOf(s)>>) : s \in Held(f) }
    ELSE {}

\* ECS.StopTask for one identifier: the call of the platform, which stops the
\* task if it is running
StopTask ==
    /\ \E p \in StopTaskCallers(last, fleet), ok \in BOOLEAN :
         LET k      == Len(p.calls) + 1
             taskId == p.input[k]
         IN  /\ fleet' = [s \in 1..Len(fleet) |->
                            IF ok /\ s \in Held(fleet) /\ LastPiece(fleet[s].TaskArn, "/") = taskId
                            THEN StoppedTask(s)
                            ELSE fleet[s]]
             /\ last' = [p EXCEPT
                           !.calls = Append(@, Call("StopTask", taskId, ok)),
                           !.pc = AfterStopTask(ok, k < Len(p.input)),
                           !.exit = IF ok THEN @ ELSE ErrorTitle("StopTask")]
    /\ UNCHANGED svcVars

\* the cluster changes between two calls of a command, which has then seen one
\* more change, or between two commands
Changed(p) ==
    IF Running(p) THEN [p EXCEPT !.changes = @ + 1] ELSE p

\* another tool, or a service deployment, starts a task in the cluster
StartForeignTask ==
    /\ Free(fleet) # {}
    /\ ~Finished(last)
    /\ Running(last) => last.changes < MaxChanges
    /\ \E t \in ForeignTasks :
         LET k == CHOOSE x \in Lowest(Free(fleet), 1) : TRUE
         IN  fleet' = [fleet EXCEPT ![k] = ForeignTask(k, t)]
    /\ last' = Changed(last)
    /\ UNCHANGED svcVars

\* a task of the cluster stops: it ends, or another tool stops it
TaskStops ==
    /\ ~Finished(last)
    /\ Running(last) => last.changes < MaxChanges
    /\ \E k \in Held(fleet) : fleet' = [fleet EXCEPT ![k] = StoppedTask(k)]
    /\ last' = Changed(last)
    /\ UNCHANGED svcVars

\* the command returns, or console.ErrorExit has ended it: the process is gone
Return ==
    /\ Finished(last)
    /\ last' = NoOperation
    /\ UNCHANGED <<svcVars, fleet>>

InitTasks ==
    /\ fleet = [k \in 1..MaxTasks |-> NoTask]
    /\ last = NoOperation
    /\ pc = "done"
    /\ operation = [ServiceName |-> "web", Cpu |-> "256", Memory |-> "512",
                    Image |-> NoImage, Port |-> NoPort, LoadBalancerArn |-> NoArn,
                    LoadBalancerName |-> "", Rules |-> <<>>, EnvVars |-> <<>>]
    /\ flags = [image |-> NoImage, port |-> <<>>, lb |-> "", rules |-> <<>>]
    /\ repos = {}
    /\ calls = <<>>
    /\ err = NoError
    /\ local = NoLocals
    /\ created = <<>>

NextTasks ==
    \/ RunTask
    \/ StartForeignTask
    \/ TaskStops
    \/ DescribeTasksForService
    \/ DescribeTasksForTaskGroup
    \/ ListTaskGroups
    \/ NextPage
    \/ DescribeTasks
    \/ EnrichTask
    \/ Return

\* the inventory: tasks are run, listed, described and grouped while the cluster
\* changes
SpecTasks == InitTasks /\ [][NextTasks]_vars

NextStops ==
    \/ RunTask
    \/ StartForeignTask
    \/ TaskStops
    \/ StopTasks
    \/ StopTask
    \/ Return

\* lifecycle control: tasks are run and stopped while the cluster changes
SpecStops == InitTasks /\ [][NextStops]_vars

-----------------------------------------------------------------------------
(* Vocabulary of the properties *)

\* the step of createService a call belongs to; 0 for the describe call of
\* SetLoadBalancer, which precedes createService
StepOf(op) ==
    CASE op \in {"IsRepositoryCreated", "GetRepositoryUri", "CreateRepository"} -> 1
      [] op = "GetDefaultVpcSubnetIds" -> 2
      [] op = "CreateEcsTaskExecutionRole" -> 3
      [] op = "CreateLogGroup" -> 4
      [] op \in {"GetUsernameAndPassword", "IsCwdGitRepo", "GetShortSha", "GenerateTag",
                 "Login", "Build", "Push"} -> 5
      [] op \in {"GetDefaultVpcId", "CreateTargetGroup", "AddRule",
                 "ModifyLoadBalancerDefaultAction"} -> 6
      [] op = "CreateTaskDefinition" -> 7
      [] op = "CreateService" -> 8
      [] OTHER -> 0

\* positions of the calls of operation op in the log
CallsOf(op) == { i \in 1..Len(calls) : calls[i].op = op }

\* a successful call of op was issued before position j
DoneBefore(op, j) == \E i \in 1..(j-1) : calls[i].op = op /\ calls[i].ok

\* step k has completed successfully before position j of the log
StepDoneBefore(k, j) ==
    CASE k = 1 -> DoneBefore("GetRepositoryUri", j) \/ DoneBefore("CreateRepository", j)
      [] k = 2 -> DoneBefore("GetDefaultVpcSubnetIds", j)
      [] k = 3 -> DoneBefore("CreateEcsTaskExecutionRole", j)
      [] k = 4 -> DoneBefore("CreateLogGroup", j)
      [] k = 5 -> flags.image = NoImage => DoneBefore("Push", j)
      [] k = 6 -> operation.LoadBalancerArn # NoArn =>
                    IF Len(operation.Rules) > 0
                    THEN Cardinality({ i \in 1..(j-1) : calls[i].op = "AddRule" /\ calls[i].ok })
                           = Len(operation.Rules)
                    ELSE DoneBefore("ModifyLoadBalancerDefaultAction", j)
      [] k = 7 -> DoneBefore("CreateTaskDefinition", j)
      [] OTHER -> TRUE

\* the positions of createService
CreateServicePositions ==
    {"IsRepositoryCreated", "GetRepositoryUri", "CreateRepository", "GetDefaultVpcSubnetIds",
     "CreateEcsTaskExecutionRole", "CreateLogGroup", "GetUsernameAndPassword", "DeriveTag",
     "Login", "Build", "Push", "GetDefaultVpcId", "CreateTargetGroup", "AddRule",
     "ModifyLoadBalancerDefaultAction", "CreateTaskDefinition", "CreateService", "done"}

\* the resource a successful call creates, none for a call that only reads
ResourceOf(c) ==
    CASE c.op = "CreateRepository" -> << [kind |-> "repository", id |-> RepositoryUri(c.arg[1])] >>
      [] c.op = "CreateEcsTaskExecutionRole" -> << [kind |-> "role", id |-> ExecutionRoleArn] >>
      [] c.op = "CreateLogGroup" ->
            << [kind |-> "logGroup", id |-> LogGroupName(c.arg[1], c.arg[2])] >>
      [] c.op = "Push" ->
            << [kind |-> "image", id |-> UriFor(RepositoryUri(operation.ServiceName), c.arg)] >>
      [] c.op = "CreateTargetGroup" ->
            << [kind |-> "targetGroup", id |-> TargetGroupArn(c.arg.Name)] >>
      [] c.op = "AddRule" -> << [kind |-> "rule", id |-> c.arg] >>
      [] c.op = "ModifyLoadBalancerDefaultAction" -> << [kind |-> "defaultAction", id |-> c.arg] >>
      [] c.op = "CreateTaskDefinition" -> << [kind |-> "taskDefinition", id |-> c.arg] >>
      [] c.op = "CreateService" -> << [kind |-> "service", id |-> c.arg] >>
      [] OTHER -> <<>>

RECURSIVE ResourcesOf(_)
\* the resources the successful calls of a log created, in order
ResourcesOf(log) ==
    IF Len(log) = 0 THEN <<>>
    ELSE ResourcesOf(SubSeq(log, 1, Len(log) - 1))
         \o (IF log[Len(log)].ok THEN ResourceOf(log[Len(log)]) ELSE <<>>)

-----------------------------------------------------------------------------
(* Properties *)

\* C1: the calls of createService are issued in the order of the steps 1..8: a call
\* is issued only after every earlier call has succeeded and every earlier step
\* that applies has completed; no call of step 5 or later precedes the completion
\* of steps 1-4, and CreateService is issued only after CreateTaskDefinition returned.
C1_StepOrder ==
    \A j \in 1..Len(calls) :
        LET k == StepOf(calls[j].op)
        IN  /\ \A i \in 1..(j-1) : calls[i].ok /\ StepOf(calls[i].op) <= k
            /\ \A e \in 1..7 : e < k => StepDoneBefore(e, j)

\* C1 witness: a deployment that went through all eight steps
C1_Witness ==
    /\ pc = "done"
    /\ { StepOf(calls[i].op) : i \in 1..Len(calls) } = 0..8
    /\ Len(operation.Rules) = 2

\* C2: a failing call ends the deployment: it is the last call of the log (nothing
\* of a later step follows, it is not issued again), the process has exited on it
\* and can take no further step, and the resources the earlier calls created are
\* all still there, as created.
C2_FailureIsFatal ==
    /\ \A i \in 1..Len(calls) : ~calls[i].ok =>
          /\ i = Len(calls)
          /\ pc = "exit"
          /\ err = RemoteError(calls[i].op)
          /\ \A h \in 1..(i-1) : StepOf(calls[h].op) <= StepOf(calls[i].op)
    /\ pc = "exit" => ~ENABLED Next
    /\ created = ResourcesOf(calls)

\* C2 witness: the last step failed after every earlier step created its resources
C2_Witness ==
    /\ pc = "exit"
    /\ Len(calls) > 0
    /\ calls[Len(calls)].op = "CreateService"
    /\ ~calls[Len(calls)].ok
    /\ { created[i].kind : i \in 1..Len(created) }
         = {"repository", "role", "logGroup", "image", "targetGroup", "rule", "taskDefinition"}

\* the titles under which the command reports a configuration error
PortErrorTitle == "Invalid command line flags"
RuleErrorTitle == "Invalid rule"
LbErrorTitle == "Invalid load balancer and protocol"

\* SetLoadBalancer has described a balancer
Described == Len(calls) > 0 /\ calls[1].op = "DescribeLoadBalancer" /\ calls[1].ok

\* C3 (as claimed): an execution that ends with a configuration error has issued
\* no collaborator call at all, the load-balancer describe call included.
C3_NoCallBeforeConfigError ==
    err.title \in {PortErrorTitle, RuleErrorTitle, LbErrorTitle} => calls = <<>>

\* C3 (amended): a port or protocol error is reported before any collaborator
\* call; a rule error or an incompatible balancer is reported (and a rule entry
\* without separator crashes the command) after exactly one collaborator call, the
\* successful load-balancer describe call, and before any call of createService.
C3_OnlyDescribeBeforeConfigError ==
    /\ err.title = PortErrorTitle => calls = <<>>
    /\ (err.title \in {RuleErrorTitle, LbErrorTitle} \/ pc = "panic") =>
          Len(calls) = 1 /\ Described

\* C3 witness: a rule error reported after the describe call
C3_Witness ==
    /\ pc = "exit"
    /\ err.title = RuleErrorTitle
    /\ Len(calls) = 1
    /\ Described

\* number of occurrences of sep in s
Count(s, sep) == Cardinality({i \in 1..Len(s) : s[i] = sep})

\* the type of a rule entry: the text before its first separator
TypeText(inputRule) == SplitN2(inputRule, "=")[1]

HostOrPath == { <<"H","O","S","T">>, <<"P","A","T","H">> }

\* C4 (as claimed): a rule list with an entry whose type is not host or path (in
\* any letter case) is rejected, and every rule stored in the operation or passed
\* to AddRule has type HOST or PATH.
C4_OnlyHostOrPath ==
    /\ (\E i \in 1..Len(flags.rules) : ToUpper(TypeText(flags.rules[i])) \notin HostOrPath)
          => operation.Rules = <<>>
    /\ \A i \in 1..Len(operation.Rules) : operation.Rules[i].Type \in HostOrPath
    /\ \A i \in CallsOf("AddRule") : calls[i].arg.rule.Type \in HostOrPath

\* C5 (as claimed): a rule list with an entry that does not hold exactly one
\* separator ends in the aggregated 'Invalid rule' error with Rules unset.
C5_ExactlyOneSeparator ==
    (\E i \in 1..Len(flags.rules) : Count(flags.rules[i], "=") # 1) =>
        /\ pc = "exit"
        /\ err.title = RuleErrorTitle
        /\ operation.Rules = <<>>

\* C6: a non-empty rule list without a load balancer is never accepted, valid
\* entries or not (the command ends in the 'Invalid rule' error that names the
\* missing balancer, or crashes on an entry without separator), so createService
\* runs with a non-empty Rules list only when LoadBalancerArn is set.
C6_RulesNeedLoadBalancer ==
    /\ (Len(flags.rules) > 0 /\ operation.LoadBalancerArn = NoArn) =>
          /\ pc \in {"exit", "panic"}
          /\ operation.Rules = <<>>
          /\ pc = "exit" =>
                /\ err.title = RuleErrorTitle
                /\ \E m \in 1..Len(err.msgs) :
                      err.msgs[m].msg = "lb must be configured if rules are specified"
    /\ (pc \in CreateServicePositions /\ Len(operation.Rules) > 0) =>
          operation.LoadBalancerArn # NoArn

\* C6 witness: well-formed rules rejected for the missing balancer alone
C6_Witness ==
    /\ pc = "exit"
    /\ flags.rules = << <<"h","o","s","t","=","a",".","b">>, <<"P","A","T","H","=","/","x">> >>
    /\ operation.LoadBalancerArn = NoArn
    /\ Len(err.msgs) = 1

\* the kind of the balancer of a name
KindOf(lb) ==
    IF \E b \in LoadBalancers : b.Name = lb
    THEN (CHOOSE b \in LoadBalancers : b.Name = lb).Type
    ELSE ""

TCP == <<"T","C","P">>
HTTP == <<"H","T","T","P">>
HTTPS == <<"H","T","T","P","S">>

Compatible(kind, protocol) ==
    \/ kind = "network" /\ protocol = TCP
    \/ kind = "application" /\ protocol \in {HTTP, HTTPS}

\* C7: for a described balancer of the network or application kind,
\* SetLoadBalancer rejects exactly the incompatible protocols; a rejection leaves
\* LoadBalancerName and LoadBalancerArn unset, an acceptance sets them to the name
\* given and the ARN described; every target group createService creates has a
\* protocol compatible with the kind of its balancer.
C7_ProtocolCompatibility ==
    LET kind     == KindOf(flags.lb)
        rejected == pc = "exit" /\ err.title = LbErrorTitle
    IN  /\ (Described /\ kind \in {"network", "application"}) =>
              /\ rejected <=> ~Compatible(kind, operation.Port.Protocol)
              /\ rejected =>
                    operation.LoadBalancerName = "" /\ operation.LoadBalancerArn = NoArn
              /\ ~rejected =>
                    /\ operation.LoadBalancerName = flags.lb
                    /\ operation.LoadBalancerArn = <<"arn", "lb", flags.lb>>
        /\ \A i \in CallsOf("CreateTargetGroup") :
              Compatible(KindOf(calls[i].arg.Name[1]), calls[i].arg.Protocol)

\* C7 witness: an application balancer refused for TCP
C7_Witness ==
    /\ Described
    /\ KindOf(flags.lb) = "application"
    /\ operation.Port.Protocol = TCP
    /\ pc = "exit"
    /\ err.title = LbErrorTitle

\* what SetPort is to do with each port specification: the port to store, or the
\* violations to report
ExpectedPort(inputPort) ==
    CASE inputPort = <<"t","c","p",":","1","9","3","5">> ->
            [accept |-> TRUE, port |-> [Protocol |-> TCP, Port |-> 1935], msgs |-> <<>>]
      [] inputPort = <<"H","T","T","P",":","8","0","8","0">> ->
            [accept |-> TRUE, port |-> [Protocol |-> HTTP, Port |-> 8080], msgs |-> <<>>]
      [] inputPort = <<"h","t","t","p","s",":","8","4","4","3">> ->
            [accept |-> TRUE, port |-> [Protocol |-> HTTPS, Port |-> 8443], msgs |-> <<>>]
      [] inputPort = <<"H","t","t","p",":","1">> ->
            [accept |-> TRUE, port |-> [Protocol |-> HTTP, Port |-> 1], msgs |-> <<>>]
      [] inputPort = <<"8","0","8","0">> ->
            [accept |-> TRUE, port |-> [Protocol |-> TCP, Port |-> 8080], msgs |-> <<>>]
      [] inputPort = <<"6","5","5","3","5">> ->
            [accept |-> TRUE, port |-> [Protocol |-> TCP, Port |-> 65535], msgs |-> <<>>]
      [] inputPort = <<"6","5","5","3","6">> ->
            [accept |-> FALSE, port |-> NoPort, msgs |-> <<"Invalid port">>]
      [] inputPort = <<"0">> ->
            [accept |-> FALSE, port |-> NoPort, msgs |-> <<"Invalid port">>]
      [] inputPort = <<"h","t","t","p",":","0">> ->
            [accept |-> FALSE, port |-> NoPort, msgs |-> <<"Invalid port">>]
      [] inputPort = <<"u","d","p",":","5","3">> ->
            [accept |-> FALSE, port |-> NoPort, msgs |-> <<"Invalid protocol">>]
      [] inputPort = <<"f","t","p",":","0">> ->
            [accept |-> FALSE, port |-> NoPort, msgs |-> <<"Invalid protocol", "Invalid port">>]
      [] inputPort = <<"u","d","p",":","7","0","0","0","0">> ->
            [accept |-> FALSE, port |-> NoPort, msgs |-> <<"Invalid protocol", "Invalid port">>]

\* C8: SetPort accepts exactly the specifications with a protocol among TCP, HTTP,
\* HTTPS in any letter case (TCP when omitted) and a port in 1..65535, and stores
\* the protocol in upper case; any other is rejected with Port left unset, in one
\* error that lists every violation, both when both are present.
C8_SetPort ==
    flags.port # <<>> =>
        LET e == ExpectedPort(flags.port)
            rejected == pc = "exit" /\ err.title = PortErrorTitle
        IN  /\ rejected <=> ~e.accept
            /\ operation.Port = e.port
            /\ rejected => [m \in 1..Len(err.msgs) |-> err.msgs[m].msg] = e.msgs

\* C8 witness: a specification rejected for its protocol and for its port at once
C8_Witness ==
    /\ flags.port = <<"f","t","p",":","0">>
    /\ pc = "exit"
    /\ Len(err.msgs) = 2

\* C9: with rules configured, one AddRule call is issued per rule, in order, each
\* with the target group of this deployment, and the default action is never
\* replaced; with none configured, the default action is replaced exactly once
\* with that target group and no rule is added; both only after the target group
\* has been created.
C9_RulesOrDefaultAction ==
    LET adds == CallsOf("AddRule")
        mods == CallsOf("ModifyLoadBalancerDefaultAction")
        tgs  == CallsOf("CreateTargetGroup")
        wired == /\ pc \in {"CreateTaskDefinition", "CreateService", "done"}
                 /\ operation.LoadBalancerArn # NoArn
    IN  /\ Len(operation.Rules) > 0 => mods = {}
        /\ Len(operation.Rules) = 0 => adds = {} /\ Cardinality(mods) <= 1
        /\ Cardinality(tgs) <= 1
        /\ Cardinality(adds) <= Len(operation.Rules)
        /\ \A i \in adds \cup mods :
              /\ calls[i].arg.lb = operation.LoadBalancerArn
              /\ \E t \in tgs :
                    /\ t < i
                    /\ calls[t].ok
                    /\ calls[i].arg.tg = TargetGroupArn(calls[t].arg.Name)
        /\ \A i \in adds :
              calls[i].arg.rule = operation.Rules[Cardinality({ h \in adds : h <= i })]
        /\ wired => IF Len(operation.Rules) > 0
                    THEN Cardinality(adds) = Len(operation.Rules)
                    ELSE Cardinality(mods) = 1

\* C9 witness: a deployment that attached two different rules
C9_Witness ==
    /\ pc = "done"
    /\ Cardinality(CallsOf("AddRule")) = 2
    /\ operation.Rules[1] # operation.Rules[2]

\* the calls of image resolution, in the order createService issues them
ImageCalls(isGitRepo) ==
    <<"GetUsernameAndPassword", "IsCwdGitRepo",
      IF isGitRepo THEN "GetShortSha" ELSE "GenerateTag", "Login", "Build", "Push">>

\* the calls of step 5 in the log, in order
Step5Calls == SelectSeq(calls, LAMBDA c : StepOf(c.op) = 5)

\* C10: with an explicit image, no credential, login, build or push call is issued
\* and the task definition is registered with exactly that image; with none,
\* credentials, login, build and push are issued in this order with one tag (the
\* short revision in a git working directory, a generated tag otherwise) and the
\* task definition registered afterwards carries the repository URI for that tag.
C10_ImageResolution ==
    LET regs == CallsOf("CreateTaskDefinition")
        s5   == Step5Calls
    IN  IF flags.image # NoImage
        THEN /\ s5 = <<>>
             /\ \A i \in regs : calls[i].arg.Image = flags.image
        ELSE /\ Len(s5) >= 2 =>
                  LET isGitRepo == s5[2].arg[1]
                      tag == IF isGitRepo THEN ShortSha ELSE GeneratedTag
                  IN  /\ Len(s5) <= 6
                      /\ \A k \in 1..Len(s5) : s5[k].op = ImageCalls(isGitRepo)[k]
                      /\ Len(s5) >= 5 => s5[5].arg = tag
                      /\ Len(s5) >= 6 => s5[6].arg = tag
                      /\ \A i \in regs :
                            calls[i].arg.Image
                              = UriFor(RepositoryUri(operation.ServiceName), tag)
             /\ Len(s5) = 1 => s5[1].op = "GetUsernameAndPassword"
             /\ \A i \in regs : DoneBefore("Push", i)

\* C10 witness: a task definition registered with the image built from the short
\* revision
C10_Witness ==
    /\ flags.image = NoImage
    /\ \E i \in CallsOf("CreateTaskDefinition") :
          calls[i].arg.Image = <<"ecr", operation.ServiceName, ":", "abc1234">>
    /\ \E i \in CallsOf("Build") : calls[i].arg = ShortSha

\* what the last successful call of op before position j returned
ReturnedBefore(op, j) ==
    { calls[i].ret : i \in { h \in 1..(j-1) : calls[h].op = op /\ calls[h].ok } }

\* the calls that touch the load balancer or its target group
BalancerWiringOps ==
    {"GetDefaultVpcId", "CreateTargetGroup", "AddRule", "ModifyLoadBalancerDefaultAction"}

\* C11: every CreateService call carries the task-definition ARN that this
\* deployment's registration returned, the subnets that its subnet lookup
\* returned, and the ARN of the target group created by this deployment exactly
\* when a load balancer is bound; with no load balancer bound nothing is done on
\* a balancer or a target group and the target group reference is empty.
C11_ServiceWiring ==
    /\ \A j \in CallsOf("CreateService") :
          /\ ReturnedBefore("CreateTaskDefinition", j) = {calls[j].arg.TaskDefinitionArn}
          /\ ReturnedBefore("GetDefaultVpcSubnetIds", j) = {calls[j].arg.SubnetIds}
          /\ IF operation.LoadBalancerArn # NoArn
             THEN /\ calls[j].arg.TargetGroupArn # NoArn
                  /\ ReturnedBefore("CreateTargetGroup", j) = {calls[j].arg.TargetGroupArn}
             ELSE calls[j].arg.TargetGroupArn = NoArn
    /\ operation.LoadBalancerArn = NoArn =>
          \A i \in 1..Len(calls) : calls[i].op \notin BalancerWiringOps

\* C11 witness: a service created behind a load balancer with the second
\* revision of its task definition
C11_Witness ==
    /\ pc = "done"
    /\ operation.LoadBalancerArn # NoArn
    /\ \E j \in CallsOf("CreateService") :
          /\ calls[j].ok
          /\ calls[j].arg.TargetGroupArn # NoArn
          /\ calls[j].arg.TaskDefinitionArn = TaskDefinitionArn(operation.ServiceName, "2")

\* C11 second case: a service created with no load balancer bound
C11_WitnessUnbound ==
    /\ pc = "done"
    /\ operation.LoadBalancerArn = NoArn
    /\ \E j \in CallsOf("CreateService") : calls[j].ok /\ calls[j].arg.TargetGroupArn = NoArn

\* the successful calls of the log that hand out the reference of repository name
AcquiredAt(name) ==
    { i \in 1..Len(calls) : /\ calls[i].op \in {"GetRepositoryUri", "CreateRepository"}
                            /\ calls[i].ok
                            /\ calls[i].arg = <<name>> }

\* the calls of the log that ask the registry to create repository name
CreationsOf(name) ==
    { i \in 1..Len(calls) : calls[i].op = "CreateRepository" /\ calls[i].arg = <<name>> }

\* C12: repository acquisition is idempotent: however often it runs for one
\* service name, every run that completes hands out the same reference, the
\* repository is created at most once, and creation is never asked for a
\* repository that exists, so that no run fails with "already exists".
C12_AcquisitionIdempotent ==
    /\ \A name \in RepoNames :
          /\ \A i, j \in AcquiredAt(name) : calls[i].ret = calls[j].ret
          /\ Cardinality({ i \in CreationsOf(name) : calls[i].ok }) <= 1
          /\ \A i \in CreationsOf(name) : \A h \in AcquiredAt(name) : i <= h
    /\ pc = "CreateRepository" => operation.ServiceName \notin repos
    /\ pc = AfterRepository =>
          /\ operation.ServiceName \in repos
          /\ local.repositoryUri = RepositoryUri(operation.ServiceName)

\* C12 witness: the third acquisition for one name completed, the first having
\* created the repository
C12_Witness ==
    /\ pc = AfterRepository
    /\ \E name \in RepoNames :
          /\ Cardinality(AcquiredAt(name)) = 3
          /\ \E i \in AcquiredAt(name) : calls[i].op = "CreateRepository"

\* the operations of the load-balancer client
BalancerClientOps ==
    {"DescribeLoadBalancer", "CreateTargetGroup", "AddRule", "ModifyLoadBalancerDefaultAction"}

\* C19 (as claimed): when the command runs without a load-balancer name, no
\* operation of the load-balancer client is issued at any point, the describe
\* call included, LoadBalancerArn stays empty and the command does not end on
\* account of a load balancer.
C19_NoBalancerCallWithoutLb ==
    flags.lb = "" =>
        /\ \A i \in 1..Len(calls) : calls[i].op \notin BalancerClientOps
        /\ operation.LoadBalancerArn = NoArn
        /\ err.title # LbErrorTitle
        /\ err # RemoteError("DescribeLoadBalancer")

-----------------------------------------------------------------------------
(* Properties of the task inventory and of lifecycle control *)

\* the queries of the inventory, all answered by listTasks
Queries == {"DescribeTasksForService", "DescribeTasksForTaskGroup", "ListTaskGroups"}

\* a query has returned; a query has ended in console.ErrorExit
Returned_Query == last.op \in Queries /\ last.pc = "done"
Failed_Query == last.op \in Queries /\ last.pc = "exit"

RECURSIVE Flatten(_)
\* the concatenation of a sequence of pages
Flatten(pages) == IF pages = <<>> THEN <<>> ELSE Head(pages) \o Flatten(Tail(pages))

\* the non-empty pages of a listing, in page order
NonEmptyPages(pages) == SelectSeq(pages, LAMBDA page : page # <<>>)

\* the describe calls of the running command, in order, and the records the
\* successful ones returned, batch after batch
DescribeCalls == SelectSeq(last.calls, LAMBDA c : c.op = "DescribeTasks")
RecordsDescribed ==
    LET answered == SelectSeq(DescribeCalls, LAMBDA c : c.ok)
    IN  Flatten([k \in 1..Len(answered) |-> answered[k].ret])

\* the task-definition calls of the running command that succeeded
DefinitionsFetched ==
    Len(SelectSeq(last.calls, LAMBDA c : c.op = "DescribeTaskDefinition" /\ c.ok))

\* the requests of the listing of the running command, in order
ListCalls == SelectSeq(last.calls, LAMBDA c : c.op = "ListTasks")

\* C13: listTasks consumes every page and returns no partial result: the calls
\* begin with the requests of the listing, one per page, each but the last
\* answered with a token; no describe call is issued before a page came
\* without token; the describe calls are issued one per non-empty page, with
\* exactly that page, in page order; when the query returns, every non-empty
\* page was described and the tasks returned are the tasks of all records the
\* describe calls returned, in that order; when a request of the listing, a
\* describe call or a task-definition call fails, that call is the last one
\* issued and nothing is returned.
C13_ListTasksAllPages ==
    last.op \in Queries =>
        LET lists     == ListCalls
            batches   == NonEmptyPages(last.pages)
            describes == DescribeCalls
            described == RecordsDescribed
            listed    == lists[Len(lists)].ok /\ ~lists[Len(lists)].ret.NextToken
        IN  /\ Len(lists) >= 1
            /\ \A k \in 1..Len(lists) :
                  /\ last.calls[k] = lists[k]
                  /\ lists[k].arg = last.input
                  /\ lists[k].ok => last.pages[k] = lists[k].ret.TaskArns
                  /\ k < Len(lists) => lists[k].ok /\ lists[k].ret.NextToken
            /\ Len(last.pages) = Len(SelectSeq(lists, LAMBDA c : c.ok))
            /\ Len(last.calls) > Len(lists) => listed
            /\ last.pc = "ListTasksPages" <=> (lists[Len(lists)].ok /\ ~listed)
            /\ \A k \in (Len(lists) + 1)..Len(last.calls) :
                  last.calls[k].op \in {"DescribeTasks", "DescribeTaskDefinition"}
            /\ Len(describes) <= Len(batches)
            /\ \A k \in 1..Len(describes) : describes[k].arg = batches[k]
            /\ \A k \in 1..(Len(last.calls) - 1) : last.calls[k].ok
            /\ Len(last.tasks) = DefinitionsFetched
            /\ last.pc = "done" =>
                  /\ listed
                  /\ Len(describes) = Len(batches)
                  /\ last.calls[Len(last.calls)].ok
                  /\ Len(last.tasks) = Len(described)
                  /\ \A k \in 1..Len(last.tasks) : last.tasks[k] = TaskOf(described[k])
                  /\ last.op # "ListTaskGroups" => last.result = last.tasks
            /\ last.pc = "exit" =>
                  /\ ~last.calls[Len(last.calls)].ok
                  /\ last.result = <<>>
            /\ last.pc \notin {"done", "exit"} => last.result = <<>>

\* C13 witness: two tasks returned from a listing of two pages of one task and
\* a last page left empty by a task that stopped during the listing
C13_Witness ==
    /\ Returned_Query
    /\ Len(last.pages) = 3
    /\ Len(NonEmptyPages(last.pages)) = 2
    /\ Len(last.result) = 2
    /\ last.op # "ListTaskGroups"

\* C13 second case: the second describe call failed after the tasks of the
\* first page were gathered
C13_WitnessFailure ==
    /\ Failed_Query
    /\ Len(DescribeCalls) = 2
    /\ Len(NonEmptyPages(last.pages)) = 3
    /\ Len(last.tasks) = 1

\* C13 third case: the cluster changed once during a listing in three pages of
\* one task, and the three tasks listed are returned: the third was started
\* between the first request and the second
C13_WitnessListing ==
    /\ Returned_Query
    /\ last.changes = 1
    /\ Len(ListCalls) = 3
    /\ \A k \in 1..3 : Len(last.pages[k]) = 1
    /\ Len(last.result) = 3
    /\ last.op # "ListTaskGroups"

\* the logical name the pattern takes out of a started-by tag, for a tag it matches
Matching(tag) == Len(FindStringSubmatch(taskGroupStartedByPattern, tag)) = 2
NameIn(tag) == FindStringSubmatch(taskGroupStartedByPattern, tag)[2]

RECURSIVE SumInstances(_)
SumInstances(taskGroups) ==
    IF taskGroups = <<>> THEN 0 ELSE Head(taskGroups).Instances + SumInstances(Tail(taskGroups))

\* ListTaskGroups has returned
Grouped == last.op = "ListTaskGroups" /\ last.pc = "done"

\* C14: ListTaskGroups returns one group per distinct logical name among the
\* scanned tasks, no name twice; the Instances of a group is the number of
\* scanned tasks whose tag the pattern matches with that name; the Instances sum
\* to the number of matching tasks; the groups are in first-seen order.
C14_OneGroupPerName ==
    Grouped =>
        LET groups  == last.result
            tasks   == last.tasks
            matches == [i \in 1..Len(tasks) |->
                          FindStringSubmatch(taskGroupStartedByPattern, tasks[i].StartedBy)]
            matched == { i \in 1..Len(tasks) : Len(matches[i]) = 2 }
            carrying == [k \in 1..Len(groups) |->
                           { i \in matched : matches[i][2] = groups[k].TaskGroupName }]
            first   == [k \in 1..Len(groups) |->
                           CHOOSE i \in carrying[k] : \A j \in carrying[k] : i <= j]
        IN  /\ \A a, b \in 1..Len(groups) :
                  a # b => groups[a].TaskGroupName # groups[b].TaskGroupName
            /\ \A k \in 1..Len(groups) :
                  /\ groups[k].Instances >= 1
                  /\ groups[k].Instances = Cardinality(carrying[k])
            /\ \A i \in matched :
                  \E k \in 1..Len(groups) : groups[k].TaskGroupName = matches[i][2]
            /\ SumInstances(groups) = Cardinality(matched)
            /\ \A a, b \in 1..Len(groups) : a < b => first[a] < first[b]

\* C14 witness: tags fargate:web, fargate:web, fargate:worker grouped as web = 2
\* then worker = 1
C14_Witness ==
    /\ Grouped
    /\ last.result = << [TaskGroupName |-> <<"w", "e", "b">>, Instances |-> 2],
                        [TaskGroupName |-> <<"w", "o", "r", "k", "e", "r">>, Instances |-> 1] >>

\* a tag of the fixed form fargate:<logical-name>
HasFixedForm(tag) ==
    /\ Len(tag) >= Len(startedByFormat)
    /\ SubSeq(tag, 1, Len(startedByFormat)) = startedByFormat

\* C15 (as claimed): a task whose tag is not of the form fargate:<logical-name>
\* (no tag, the tag of a service deployment, a tag that holds fargate: after
\* other characters) opens no group and is counted in none: every group counts
\* the scanned tasks tagged fargate:<its name>, and nothing else.
C15_NonMatchingExcluded ==
    Grouped =>
        /\ \A k \in 1..Len(last.result) :
              last.result[k].Instances
                = Cardinality({ i \in 1..Len(last.tasks) :
                                  last.tasks[i].StartedBy
                                    = Sprintf(startedByFormat, last.result[k].TaskGroupName) })
        /\ SumInstances(last.result)
              = Cardinality({ i \in 1..Len(last.tasks) : HasFixedForm(last.tasks[i].StartedBy) })

\* C16: StopTasks issues its stop calls one at a time in the order of the list:
\* the identifiers stopped are a prefix of the list, every call but the last
\* succeeded, a failing call is the last one issued, and when none fails there
\* is one call per identifier.
C16_StopPrefix ==
    last.op = "StopTasks" =>
        /\ Len(last.calls) <= Len(last.input)
        /\ \A k \in 1..Len(last.calls) :
              /\ last.calls[k].op = "StopTask"
              /\ last.calls[k].arg = last.input[k]
              /\ k < Len(last.calls) => last.calls[k].ok
        /\ last.pc = "StopTask" =>
              /\ Len(last.calls) < Len(last.input)
              /\ \A k \in 1..Len(last.calls) : last.calls[k].ok
        /\ last.pc = "done" =>
              /\ Len(last.calls) = Len(last.input)
              /\ \A k \in 1..Len(last.calls) : last.calls[k].ok
        /\ last.pc = "exit" =>
              /\ Len(last.calls) >= 1
              /\ ~last.calls[Len(last.calls)].ok
        /\ last.pc \in {"StopTask", "done", "exit"}

\* C16 witness: the first of two stops failed, and the second was not issued
C16_Witness ==
    /\ last.op = "StopTasks"
    /\ Len(last.input) = 2
    /\ Len(last.calls) = 1
    /\ last.pc = "exit"

\* C16 second case: two tasks stopped by two calls
C16_WitnessAll ==
    /\ last.op = "StopTasks"
    /\ Len(last.input) = 2
    /\ Len(last.calls) = 2
    /\ last.pc = "done"
    /\ \A k \in 1..Len(fleet) : TaskIdOf(k) \in {last.input[1], last.input[2]} =>
                                    fleet[k] = StoppedTask(k)

\* the attachments of the network-interface kind of a record of the platform
EniAttachments(t) == SelectSeq(t.Attachments, LAMBDA a : a.Type = eniAttachmentType)

\* the values an attachment gives for the detail name
DetailValues(attachment, name) ==
    { attachment.Details[d].Value :
        d \in { h \in 1..Len(attachment.Details) : attachment.Details[h].Name = name } }

\* C17: enrichment does not fail for lack of a network attachment: every record
\* the describe calls returned is in the result of a query that returns; a task
\* without attachment, or with none of the network-interface kind, has empty
\* EniId and SubnetId; a task with one network-interface attachment has the
\* values of its networkInterfaceId and subnetId details (empty for a detail it
\* lacks), and never a value of an attachment of another kind.
C17_EniEnrichment ==
    Returned_Query =>
        LET described == RecordsDescribed
        IN
        /\ Len(last.tasks) = Len(described)
        /\ \A k \in 1..Len(last.tasks) :
              LET t    == described[k]
                  enis == EniAttachments(t)
                  task == last.tasks[k]
              IN  /\ task.TaskId = LastPiece(t.TaskArn, "/")
                  /\ enis = <<>> => task.EniId = "" /\ task.SubnetId = ""
                  /\ Len(enis) = 1 =>
                        /\ {task.EniId} \ {""} = DetailValues(enis[1], detailNetworkInterfaceId)
                        /\ {task.SubnetId} \ {""} = DetailValues(enis[1], detailSubnetId)
                  /\ \A e \in {task.EniId} \ {""} :
                        \E a \in 1..Len(enis) :
                            e \in DetailValues(enis[a], detailNetworkInterfaceId)
                  /\ \A n \in {task.SubnetId} \ {""} :
                        \E a \in 1..Len(enis) : n \in DetailValues(enis[a], detailSubnetId)

\* C17 witness: a task with an attachment of another kind only, returned with
\* empty fields next to a task with its interface
C17_Witness ==
    /\ Returned_Query
    /\ \E a, b \in 1..Len(last.tasks) :
          /\ RecordsDescribed[a].Attachments = << OtherAttachment >>
          /\ last.tasks[a].EniId = ""
          /\ last.tasks[b].EniId = "eni-1"
          /\ last.tasks[b].SubnetId = "subnet-a"

\* C17 second case: a task without any attachment is returned
C17_WitnessNone ==
    /\ Returned_Query
    /\ \E a \in 1..Len(last.tasks) :
          /\ RecordsDescribed[a].Attachments = <<>>
          /\ last.tasks[a].EniId = "" /\ last.tasks[a].SubnetId = ""

\* the Instances ListTaskGroups reports for a name, none when it has no group
InstancesOf(taskGroups, name) ==
    SumInstances(SelectSeq(taskGroups, LAMBDA g : g.TaskGroupName = name))

\* the tasks DescribeTasksForTaskGroup gathers on the present cluster when it
\* does not change meanwhile
TasksOfGroup(name) == Records(fleet, ListTasks(fleet, TaskGroupInput(name)))

\* C18 (as claimed): the started-by correlation is consistent across run, query
\* and grouping: the tasks RunTask starts for name n are tagged fargate:n and
\* the pattern takes n out of that tag again; on one cluster, unchanged while
\* it is scanned, the Instances ListTaskGroups reports for n is the number of
\* tasks DescribeTasksForTaskGroup(n) returns.
C18_CorrelationConsistent ==
    /\ (last.op = "RunTask" /\ last.pc = "done") =>
          /\ Cardinality(last.started) = last.input.Count
          /\ \A k \in last.started :
                /\ fleet[k].StartedBy = Sprintf(startedByFormat, last.input.TaskName)
                /\ Matching(fleet[k].StartedBy)
                /\ NameIn(fleet[k].StartedBy) = last.input.TaskName
    /\ (Grouped /\ last.changes = 0) =>
          \A name \in TaskNames :
              InstancesOf(last.result, name) = Len(TasksOfGroup(name))

====
